---- MODULE Spec2Model ----
(***************************************************************************)
(* PrismAPI: the review agent (NCBI Entrez / Web of Science) and the       *)
(* galaxy agent.  The module models                                        *)
(*   - the values the upstream libraries hand to the providers (nested     *)
(*     Python dicts, lists, strings, ints, None),                          *)
(*   - the two record normalizers of provider.py,                          *)
(*   - the two paginated fetches of provider.py, one remote call per step, *)
(*   - process_command of both controllers and the interactive loop,       *)
(*   - the two persist operations of provider.py and the files they write, *)
(*   - run() of both agents from the configuration test to the loop.       *)
(***************************************************************************)
EXTENDS Integers, Sequences, FiniteSets, TLC

VARIABLES
    entry,        \* which entry point this run exercises
    pc,           \* position of the single thread of control
    caller,       \* who called the running provider method
    args,         \* keyword arguments of the resolved action / direct call
    count,        \* fetch_full_records: int(search_results["Count"])
    webenv,       \* fetch_full_records: search_results["WebEnv"]
    query_key,    \* fetch_full_records: search_results["QueryKey"]
    start,        \* fetch_full_records: loop variable of the batch loop
    all_records,  \* fetch_full_records: raw records accumulated so far
    total_hits,   \* search_and_fetch_all: metadata.total of the probe
    i,            \* search_and_fetch_all: loop variable of the page loop
    all_results,  \* search_and_fetch_all: raw hits accumulated so far
    result,       \* return value of the provider method that ran last
    calls,        \* remote calls and sleeps of the current command, in order
    served,       \* the raw records the upstream has served to the current fetch, in order
    response,     \* the language model's answer to the current command
    shown,        \* what the current command printed to the user
    saved,        \* the persist operations the current command executed
    raised,       \* the exceptions raised while the current command ran, in order
    raw,          \* normalizer harness: the raw records handed in
    norm,         \* normalizer harness: what the normalizer produced
    files,        \* the file system: filename -> what was written to the file
    returned,     \* what the persist method that ran last returned
    env,          \* os.environ after load_dotenv(): name -> value, for the names set
    built         \* the objects run() has constructed, in order

ctlVars == << entry, caller, args, response, saved >>
outVars == << shown, raised >>
ncbiVars == << count, webenv, query_key, start, all_records >>
wosVars == << total_hits, i, all_results >>
normVars == << raw, norm >>
sysVars == << files, returned, env, built >>
vars == << pc, ctlVars, outVars, ncbiVars, wosVars, normVars, sysVars, result, calls, served >>

(***************************************************************************)
(* Python values.  Every value carries its type tag; a dict is a function  *)
(* from the keys it has, a list a sequence.                                *)
(***************************************************************************)
PyNone == [t |-> "none"]
PyStr(s) == [t |-> "str", s |-> s]
PyInt(n) == [t |-> "int", n |-> n]
PyList(l) == [t |-> "list", l |-> l]
PyDict(d) == [t |-> "dict", d |-> d]
EmptyDict == PyDict(<< >>)
EmptyList == PyList(<< >>)

\* The outcome of an expression that raised.
Raise == [t |-> "raise"]

\* x.get(k, default): AttributeError on anything that is not a dict.
Get(x, k, default) ==
    IF x.t # "dict" THEN Raise
    ELSE IF k \in DOMAIN x.d THEN x.d[k] ELSE default

\* Python truthiness (bool(x)).
Truthy(x) ==
    CASE x.t = "none" -> FALSE
      [] x.t = "str"  -> x.s # ""
      [] x.t = "int"  -> x.n # 0
      [] x.t = "list" -> x.l # << >>
      [] x.t = "dict" -> DOMAIN x.d # {}
      [] OTHER        -> TRUE

DigitChar(d) ==
    CASE d = 0 -> "0" [] d = 1 -> "1" [] d = 2 -> "2" [] d = 3 -> "3" [] d = 4 -> "4"
      [] d = 5 -> "5" [] d = 6 -> "6" [] d = 7 -> "7" [] d = 8 -> "8" [] d = 9 -> "9"

RECURSIVE IntToStr(_)
IntToStr(n) ==
    IF n < 0 THEN "-" \o IntToStr(0 - n)
    ELSE IF n < 10 THEN DigitChar(n)
    ELSE IntToStr(n \div 10) \o DigitChar(n % 10)

\* str(x) for the values that reach a str() call in the normalizers.
Str(x) ==
    CASE x.t = "str"  -> x.s
      [] x.t = "int"  -> IntToStr(x.n)
      [] x.t = "none" -> "None"
      [] x.t = "list" /\ x.l = << >> -> "[]"
      [] x.t = "dict" /\ DOMAIN x.d = {} -> "{}"

\* sep.join(parts) on a sequence of native strings.
RECURSIVE Join(_, _)
Join(sep, parts) ==
    IF parts = << >> THEN ""
    ELSE IF Len(parts) = 1 THEN parts[1]
    ELSE parts[1] \o sep \o Join(sep, Tail(parts))

\* Whether every element of a Python list is a str (join raises TypeError otherwise).
AllStr(l) == \A k \in 1..Len(l) : l[k].t = "str"

(***************************************************************************)
(* Record Normalizer, literature records (NcbiProvider).                   *)
(***************************************************************************)
NoTitleFound == "No Title Found"
NoAbstractFound == "No Abstract Found"
NoJournalFound == "No Journal Found"
NoYearFound == "No Year Found"

\* Mutant: the parts are joined without the test for an empty list.
AbstractOfAlwaysJoins(abstract_parts) ==
    IF abstract_parts = Raise THEN Raise
    ELSE IF abstract_parts.t = "list" /\ AllStr(abstract_parts.l)
         THEN PyStr(Join(" ", [k \in 1..Len(abstract_parts.l) |-> abstract_parts.l[k].s]))
    ELSE Raise

\* ' '.join(abstract_parts) if abstract_parts else 'No Abstract Found'
AbstractOf(abstract_parts) ==
    IF abstract_parts = Raise THEN Raise
    ELSE IF ~Truthy(abstract_parts) THEN PyStr(NoAbstractFound)
    ELSE IF abstract_parts.t = "list" /\ AllStr(abstract_parts.l)
         THEN PyStr(Join(" ", [k \in 1..Len(abstract_parts.l) |-> abstract_parts.l[k].s]))
    ELSE Raise   \* TypeError: not iterable, or an item that is not a str

\* pmid = citation.get('PMID', '')
PmidOf(citation) == Get(citation, "PMID", PyStr(""))

\* year = pub_date.get('Year', pub_date.get('MedlineDate', 'No Year Found'))
YearOf(pub_date) == Get(pub_date, "Year", Get(pub_date, "MedlineDate", PyStr(NoYearFound)))

\* The body of the loop of _parse_pubmed_records for one raw article:
\* [ok |-> TRUE, rec |-> the PubMedArticle] or [ok |-> FALSE] when it raises.
ParsePubmedOne(article) ==
    LET citation == Get(article, "MedlineCitation", EmptyDict)
        article_info == Get(citation, "Article", EmptyDict)
        title == Get(article_info, "ArticleTitle", PyStr(NoTitleFound))
        abstract_parts == Get(Get(article_info, "Abstract", EmptyDict), "AbstractText", EmptyList)
        abstract == AbstractOf(abstract_parts)
        journal_info == Get(article_info, "Journal", EmptyDict)
        journal_name == Get(journal_info, "Title", PyStr(NoJournalFound))
        pub_date == Get(Get(journal_info, "JournalIssue", EmptyDict), "PubDate", EmptyDict)
        year == YearOf(pub_date)
        pmid == PmidOf(citation)
    IN  IF Raise \in {citation, article_info, title, abstract, journal_info,
                      journal_name, pub_date, year, pmid}
        THEN [ok |-> FALSE]
        ELSE [ok |-> TRUE,
              rec |-> [PMID |-> Str(pmid), Title |-> Str(title), Abstract |-> Str(abstract),
                       Journal |-> Str(journal_name), Year |-> Str(year)]]

\* _parse_pubmed_records: one article per raw record, in order; an exception
\* in any record leaves the function.
ParsePubmedRecords(records) ==
    LET one == [k \in 1..Len(records) |-> ParsePubmedOne(records[k])]
    IN  IF \E k \in 1..Len(records) : ~one[k].ok
        THEN [ok |-> FALSE, recs |-> << >>]
        ELSE [ok |-> TRUE, recs |-> [k \in 1..Len(records) |-> one[k].rec]]

(***************************************************************************)
(* Record Normalizer, Web of Science records (WosProvider).                *)
(***************************************************************************)
NA == "N/A"

\* doi = 'N/A'; if isinstance(identifiers_info, dict): doi = identifiers_info.get('doi', 'N/A')
DoiOf(record) ==
    LET identifiers_info == Get(record, "identifiers", PyNone)
    IN  IF identifiers_info.t = "dict" THEN Get(identifiers_info, "doi", PyStr(NA)) ELSE PyStr(NA)

YearOfSource(record) ==
    LET source_info == Get(record, "source", PyNone)
    IN  IF source_info.t = "dict" THEN Get(source_info, "publishYear", PyStr(NA)) ELSE PyStr(NA)

JournalOfSource(record) ==
    LET source_info == Get(record, "source", PyNone)
    IN  IF source_info.t = "dict" THEN Get(source_info, "sourceTitle", PyStr(NA)) ELSE PyStr(NA)

\* What one element of authors_list appends to author_names: nothing for an
\* element that is neither a dict nor a str.
AuthorName(author) ==
    IF author.t = "dict" THEN Get(author, "displayName", PyStr(""))
    ELSE IF author.t = "str" THEN author
    ELSE PyNone

\* The inner loop over authors_list, then filter(None, author_names).
RECURSIVE AuthorNames(_)
AuthorNames(l) ==
    IF l = << >> THEN << >>
    ELSE IF l[1].t \in {"dict", "str"} /\ Truthy(AuthorName(l[1]))
         THEN << AuthorName(l[1]) >> \o AuthorNames(Tail(l))
    ELSE AuthorNames(Tail(l))

AuthorsOf(record) ==
    LET names_info == Get(record, "names", EmptyDict)
    IN  IF names_info.t # "dict" THEN PyStr(NA)
        ELSE LET authors_list == Get(names_info, "authors", EmptyList)
             IN  IF ~Truthy(authors_list) THEN PyStr(NA)
                 ELSE IF authors_list.t # "list" THEN Raise   \* for ... in <int>: TypeError
                 ELSE LET names == AuthorNames(authors_list.l)
                      IN  IF ~AllStr(names) THEN Raise        \* '; '.join: TypeError
                          ELSE PyStr(Join("; ", [k \in 1..Len(names) |-> names[k].s]))

\* The body of the loop of _parse_wos_records for one raw hit:
\* skip (not a dict), a WosArticle, or an exception.
ParseWosOne(record) ==
    IF record.t # "dict" THEN [ok |-> TRUE, skip |-> TRUE]
    ELSE LET uid == Get(record, "uid", PyStr(NA))
             title == Get(record, "title", PyStr(NA))
             doi == DoiOf(record)
             year == YearOfSource(record)
             journal == JournalOfSource(record)
             authors == AuthorsOf(record)
         IN  IF Raise \in {authors}
             THEN [ok |-> FALSE, skip |-> FALSE]
             ELSE [ok |-> TRUE, skip |-> FALSE,
                   rec |-> [UID |-> Str(uid), DOI |-> Str(doi), Title |-> Str(title),
                            Authors |-> Str(authors), Journal |-> Str(journal),
                            Year |-> Str(year)]]

RECURSIVE KeptWos(_)
\* The articles appended by the loop, in order (skipped hits leave nothing).
KeptWos(records) ==
    IF records = << >> THEN << >>
    ELSE LET one == ParseWosOne(records[1])
         IN  IF one.skip THEN KeptWos(Tail(records))
             ELSE << one.rec >> \o KeptWos(Tail(records))

ParseWosRecords(records) ==
    IF \E k \in 1..Len(records) : ~ParseWosOne(records[k]).ok
    THEN [ok |-> FALSE, recs |-> << >>]
    ELSE [ok |-> TRUE, recs |-> KeptWos(records)]

(***************************************************************************)
(* The raw records the upstream can hand over.  Bio.Entrez and the WoS     *)
(* JSON are nested structures in which any key may be absent and a value   *)
(* may have another shape than the normalizer expects.                     *)
(***************************************************************************)
\* The dicts holding key k with a value of S, and the dict without k.
Opt(k, S) == { << >> } \cup { k :> v : v \in S }

PmidValues == { PyStr("101"), PyStr("102"), PyInt(7) }
TitleValues == { PyStr("T1"), PyNone }
AbstractValues ==
    { EmptyDict,
      PyDict("AbstractText" :> EmptyList),
      PyDict("AbstractText" :> PyNone),
      PyDict("AbstractText" :> PyList(<< PyStr("Background.") >>)),
      PyDict("AbstractText" :> PyList(<< PyStr("Background."), PyStr("Results.") >>)),
      PyDict("AbstractText" :> PyList(<< PyStr("Methods."), PyStr(""), PyStr("End.") >>)),
      PyDict("AbstractText" :> PyList(<< PyStr("Background."), PyNone >>)),
      PyStr("abstract as text") }
PubDateValues ==
    { EmptyDict,
      PyDict("Year" :> PyStr("2020")),
      PyDict("MedlineDate" :> PyStr("2019 Jan-Feb")),
      PyDict("Year" :> PyInt(2021) @@ "MedlineDate" :> PyStr("2019 Jan-Feb")),
      PyStr("2018") }
JournalValues ==
    { PyDict(a @@ b) : a \in Opt("Title", { PyStr("J1") }),
                       b \in Opt("JournalIssue",
                                 { EmptyDict } \cup { PyDict("PubDate" :> d) : d \in PubDateValues }) }
    \cup { PyStr("journal as text") }
ArticleValues ==
    { PyDict(a @@ b @@ c) : a \in Opt("ArticleTitle", TitleValues),
                            b \in Opt("Abstract", AbstractValues),
                            c \in Opt("Journal", JournalValues) }
    \cup { PyStr("article as text") }
CitationValues ==
    { PyDict(a @@ b) : a \in Opt("PMID", PmidValues), b \in Opt("Article", ArticleValues) }
    \cup { PyStr("citation as text") }
\* Every shape of a raw PubMed record.
PubmedRaw ==
    { PyDict(a) : a \in Opt("MedlineCitation", CitationValues) } \cup { PyStr("junk") }

AuthorsValues ==
    { EmptyList, PyNone,
      PyList(<< PyDict("displayName" :> PyStr("Doe, J")) >>),
      PyList(<< PyDict("displayName" :> PyStr("Doe, J")), PyStr("Roe, R") >>),
      PyList(<< EmptyDict >>),
      PyList(<< PyInt(3) >>),
      PyList(<< PyDict("displayName" :> PyStr("Doe, J")), EmptyDict, PyStr("Roe, R") >>),
      PyList(<< PyDict("displayName" :> PyInt(5)) >>),
      PyInt(2) }
NamesValues == { PyDict(a) : a \in Opt("authors", AuthorsValues) } \cup { PyStr("names as text") }
SourceValues ==
    { PyDict(a @@ b) : a \in Opt("publishYear", { PyInt(2020), PyStr("2021") }),
                       b \in Opt("sourceTitle", { PyStr("J2") }) }
    \cup { PyStr("source as text") }
IdentifiersValues == { PyDict(a) : a \in Opt("doi", { PyStr("10.1/x") }) } \cup { PyNone }
\* Every shape of a raw Web of Science hit.
WosRaw ==
    { PyDict(a @@ b @@ c @@ d @@ e) :
        a \in Opt("uid", { PyStr("WOS:1"), PyInt(9) }),
        b \in Opt("title", { PyStr("T2") }),
        c \in Opt("identifiers", IdentifiersValues),
        d \in Opt("source", SourceValues),
        e \in Opt("names", NamesValues) }
    \cup { PyStr("junk"), PyNone }

(***************************************************************************)
(* Bounds of the model and the inputs drawn under them.                    *)
(***************************************************************************)
\* Raw records the NCBI upstream serves during one fetch, over all its batches.
MaxRecords == 3
\* Raw hits the WoS upstream serves during one fetch, over all its pages (one
\* hit on each of max_pages pages must fit).
MaxHits == 5

Min(a, b) == IF a < b THEN a ELSE b

\* Subsequences of length 0..n over S.
SeqsUpTo(S, n) == UNION { [1..k -> S] : k \in 0..n }

Dbs == { "pubmed", "protein" }
Terms == { "BRCA1 and human cancer", "(asthma[MeSH Terms])" }

\* Count values of an esearch answer: around one batch, several batches, the cap.
Counts == { 0, 1, 2, 100, 101, 250, 1000, 1001 }
\* The history-server handle of an esearch answer: (WebEnv, QueryKey).
Sessions == { << "MCID_1", "1" >>, << "MCID_2", "3" >> }
\* metadata.total values of a WoS probe answer.
Totals == { 0, 1, 5, 10, 11, 25, 40, 50, 51, 100 }

\* The raw records the fetch models let the upstream serve: two well-formed
\* ones, one without identifier and abstract, one that is not a dict.
PubmedA ==
    PyDict("MedlineCitation" :> PyDict(
        "PMID" :> PyStr("101") @@
        "Article" :> PyDict("ArticleTitle" :> PyStr("T1") @@
                            "Abstract" :> PyDict("AbstractText" :> PyList(<< PyStr("Background.") >>)))))
PubmedB == PyDict("MedlineCitation" :> PyDict("PMID" :> PyStr("102")))
PubmedSample == { PubmedA, PubmedB, PyStr("junk") }
WosA == PyDict("uid" :> PyStr("WOS:1") @@ "title" :> PyStr("T2"))
WosB == PyDict("uid" :> PyStr("WOS:2"))
WosSample == { WosA, WosB, PyStr("junk") }

(***************************************************************************)
(* Results of the provider methods: None, or a list of records.            *)
(***************************************************************************)
NoneResult == [none |-> TRUE, recs |-> << >>]
ListResult(recs) == [none |-> FALSE, recs |-> recs]

\* The language model's answer: an exception, or parts[0] with its function_call.
NoResponse == [raised |-> TRUE]

\* The normalizer harness before the normalizer ran.
NotNormalized == [ok |-> FALSE, recs |-> << >>]

\* No persist method has returned yet.
NotReturned == "not returned"

\* The method under test is called directly: run() did not run.
NoStartup == env = << >> /\ built = << >>

\* Everything a command or a direct call starts from.
Idle ==
    /\ count = 0 /\ webenv = "" /\ query_key = "" /\ start = 0 /\ all_records = << >>
    /\ total_hits = 0 /\ i = 0 /\ all_results = << >>
    /\ result = NoneResult /\ calls = << >> /\ served = << >>
    /\ response = NoResponse /\ shown = << >> /\ saved = << >> /\ raised = << >>
    /\ raw = << >> /\ norm = NotNormalized
    /\ files = << >> /\ returned = NotReturned

\* Mutant: the loop body goes on without the delay.
RateLimitSkipped(log, ms) == log

\* sleep(0.4) / sleep(0.5): the delay step at the end of a loop iteration.
RateLimit(log, ms) == Append(log, [op |-> "sleep", ms |-> ms])

\* An except clause of a provider method ran: it prints the error.
ProviderError(kind) ==
    /\ shown' = Append(shown, "provider error")
    /\ raised' = Append(raised, [where |-> "provider", kind |-> kind])

(***************************************************************************)
(* NcbiProvider.fetch_full_records: the session-cursor protocol.           *)
(***************************************************************************)
batch_size == 100
NcbiCap == 1000
sleep_ncbi_ms == 400

\* Mutant: the loop runs to count, without the cap.
NcbiInRangeNoCap(s, c) == s < c

\* Mutant: the end of the range is taken as included.
NcbiInRangeInclusive(s, c) == s <= Min(c, NcbiCap)

\* range(0, min(count, 1000), batch_size) still has the offset s.
NcbiInRange(s, c) == s < Min(c, NcbiCap)

\* Mutant: the count == 0 branch reports a failure.
NcbiZeroCountNone == NoneResult

\* What the count == 0 branch returns.
NcbiZeroCount == ListResult(<< >>)

\* Mutant: the except clause hands back what was fetched so far.
NcbiOnErrorPartial == ListResult([k \in 1..Len(all_records) |-> [PMID |-> "partial"]])

\* What the except clause returns.
NcbiOnError == NoneResult

\* The keyword arguments of the efetch call of one loop iteration.
EfetchCall(db, w, qk, s) ==
    [op |-> "efetch", db |-> db, webenv |-> w, query_key |-> qk,
     retstart |-> s, retmax |-> batch_size]

\* all_records.extend(records_data['PubmedArticle'])
NcbiExtend(acc, payload) == acc \o payload

\* Lines 20-27: the search call, the count and the handle, the early return.
\* Lines 39-41 when the call raises or its answer lacks a key.
NcbiSearch ==
    /\ pc = "ncbi_esearch"
    /\ \/ \E c \in Counts, h \in Sessions :
            /\ calls' = Append(calls, [op |-> "esearch", db |-> args.db, term |-> args.term,
                                       ok |-> TRUE, count |-> c, webenv |-> h[1],
                                       query_key |-> h[2]])
            /\ count' = c /\ webenv' = h[1] /\ query_key' = h[2]
            /\ IF c = 0
               THEN /\ result' = NcbiZeroCount /\ pc' = "ncbi_done"
                    /\ UNCHANGED << start, all_records >>
               ELSE /\ all_records' = << >> /\ start' = 0
                    /\ pc' = IF NcbiInRange(0, c) THEN "ncbi_efetch" ELSE "ncbi_finish"
                    /\ UNCHANGED result
            /\ UNCHANGED outVars
       \/ /\ calls' = Append(calls, [op |-> "esearch", db |-> args.db, term |-> args.term,
                                     ok |-> FALSE])
          /\ result' = NcbiOnError /\ pc' = "ncbi_done"
          /\ ProviderError("UpstreamError")
          /\ UNCHANGED << count, webenv, query_key, start, all_records >>
    /\ UNCHANGED << ctlVars, wosVars, normVars, sysVars, served >>

\* Lines 32-33: one batch call and the extension of all_records.
\* Lines 39-41 when the call raises or the payload has no 'PubmedArticle'.
NcbiEfetch ==
    /\ pc = "ncbi_efetch"
    /\ LET call == EfetchCall(args.db, webenv, query_key, start)
       IN  \/ \E payload \in SeqsUpTo(PubmedSample, MaxRecords - Len(served)) :
                /\ calls' = Append(calls, call @@ [ok |-> TRUE])
                /\ served' = served \o payload
                /\ all_records' = NcbiExtend(all_records, payload)
                /\ pc' = "ncbi_sleep"
                /\ UNCHANGED << result, outVars >>
           \/ /\ calls' = Append(calls, call @@ [ok |-> FALSE])
              /\ result' = NcbiOnError /\ pc' = "ncbi_done"
              /\ ProviderError("UpstreamError")
              /\ UNCHANGED << served, all_records >>
    /\ UNCHANGED << ctlVars, wosVars, normVars, sysVars, count, webenv, query_key, start >>

\* Line 34, then the loop header of line 31 for the next offset.
NcbiSleep ==
    /\ pc = "ncbi_sleep"
    /\ calls' = RateLimit(calls, sleep_ncbi_ms)
    /\ start' = start + batch_size
    /\ pc' = IF NcbiInRange(start + batch_size, count) THEN "ncbi_efetch" ELSE "ncbi_finish"
    /\ UNCHANGED << ctlVars, outVars, wosVars, normVars, sysVars, count, webenv, query_key,
                    all_records, result, served >>

\* Lines 36-37: normalization of everything fetched; lines 39-41 when it raises.
NcbiFinish ==
    /\ pc = "ncbi_finish"
    /\ LET parsed == ParsePubmedRecords(all_records)
       IN  IF parsed.ok
           THEN result' = ListResult(parsed.recs) /\ UNCHANGED outVars
           ELSE result' = NcbiOnError /\ ProviderError("AttributeError")
    /\ pc' = "ncbi_done"
    /\ UNCHANGED << ctlVars, ncbiVars, wosVars, normVars, sysVars, calls, served >>

\* A direct call of fetch_full_records(term, db).
InitNcbi ==
    /\ entry = "fetch_full_records" /\ pc = "ncbi_esearch" /\ caller = "direct"
    /\ args \in [db : Dbs, term : Terms]
    /\ Idle /\ NoStartup

NextNcbi == NcbiSearch \/ NcbiEfetch \/ NcbiSleep \/ NcbiFinish

SpecNcbi == InitNcbi /\ [][NextNcbi]_vars

(***************************************************************************)
(* WosProvider.search_and_fetch_all: the page-number protocol.             *)
(***************************************************************************)
PAGE_LIMIT == 10
max_pages == 5
sleep_wos_ms == 500

\* Mutant: the loop has no ceiling on the number of pages.
WosLoopRunsNoCeiling(p, total) == ~((p - 1) * PAGE_LIMIT >= total)

\* The loop runs iteration p: p is in range(1, max_pages + 1) and the break
\* of lines 130-131 is not taken.
WosLoopRuns(p, total) == p <= max_pages /\ ~((p - 1) * PAGE_LIMIT >= total)

\* What the total_hits == 0 branch returns.
WosZeroTotal == ListResult(<< >>)

\* What the except clauses return.
WosOnError == NoneResult

\* Mutant: the field tag without the parentheses around the term.
QueryValueBare(term) == "TS=" \o term

\* client.py lines 67-68: formatted_term = f"({term})"; query_value = f"TS={formatted_term}"
QueryValue(term) == "TS=" \o ("(" \o term \o ")")

\* The arguments of one client.search call and the q value the client sends.
WosSearchCall(term, page, limit, db, sort_field) ==
    [op |-> "wos_search", term |-> term, page |-> page, limit |-> limit, db |-> db,
     sort_field |-> sort_field, q |-> QueryValue(term)]

\* all_results.extend(page_hits)
WosExtend(acc, page_hits) == acc \o page_hits

\* Lines 119-127: the probe call (page 1, limit 1) and the early return; lines
\* 145-150 when the call raises.  An answer without metadata.total counts as 0.
WosProbe ==
    /\ pc = "wos_probe"
    /\ LET call == WosSearchCall(args.term, 1, 1, args.db, args.sort_field)
       IN  \/ \E total \in Totals :
                /\ calls' = Append(calls, call @@ [ok |-> TRUE, total |-> total])
                /\ total_hits' = total
                /\ IF total = 0
                   THEN /\ result' = WosZeroTotal /\ pc' = "wos_done"
                        /\ UNCHANGED << i, all_results >>
                   ELSE /\ all_results' = << >> /\ i' = 1
                        /\ pc' = IF WosLoopRuns(1, total) THEN "wos_page" ELSE "wos_finish"
                        /\ UNCHANGED result
                /\ UNCHANGED outVars
           \/ /\ calls' = Append(calls, call @@ [ok |-> FALSE])
              /\ result' = WosOnError /\ pc' = "wos_done"
              /\ ProviderError("UpstreamError")
              /\ UNCHANGED << total_hits, i, all_results >>
    /\ UNCHANGED << ctlVars, ncbiVars, normVars, sysVars, served >>

\* Lines 132-139: the call for page i, the stop on a page without hits, the
\* extension of all_results; lines 145-150 when the call raises.
WosPage ==
    /\ pc = "wos_page"
    /\ LET call == WosSearchCall(args.term, i, PAGE_LIMIT, args.db, args.sort_field)
       IN  \/ \E page_hits \in SeqsUpTo(WosSample, Min(PAGE_LIMIT, MaxHits - Len(served))) :
                /\ calls' = Append(calls, call @@ [ok |-> TRUE, hits |-> Len(page_hits)])
                /\ served' = served \o page_hits
                /\ IF page_hits = << >>
                   THEN pc' = "wos_finish" /\ UNCHANGED all_results
                   ELSE pc' = "wos_sleep" /\ all_results' = WosExtend(all_results, page_hits)
                /\ UNCHANGED << result, outVars >>
           \/ /\ calls' = Append(calls, call @@ [ok |-> FALSE])
              /\ result' = WosOnError /\ pc' = "wos_done"
              /\ ProviderError("UpstreamError")
              /\ UNCHANGED << served, all_results >>
    /\ UNCHANGED << ctlVars, ncbiVars, normVars, sysVars, total_hits, i >>

\* Line 140, then the loop header of lines 129-131 for the next page.
WosSleep ==
    /\ pc = "wos_sleep"
    /\ calls' = RateLimit(calls, sleep_wos_ms)
    /\ i' = i + 1
    /\ pc' = IF WosLoopRuns(i + 1, total_hits) THEN "wos_page" ELSE "wos_finish"
    /\ UNCHANGED << ctlVars, outVars, ncbiVars, normVars, sysVars, total_hits, all_results, result,
                    served >>

\* Lines 142-143: normalization of everything fetched; lines 148-150 when it raises.
WosFinish ==
    /\ pc = "wos_finish"
    /\ LET parsed == ParseWosRecords(all_results)
       IN  IF parsed.ok
           THEN result' = ListResult(parsed.recs) /\ UNCHANGED outVars
           ELSE result' = WosOnError /\ ProviderError("TypeError")
    /\ pc' = "wos_done"
    /\ UNCHANGED << ctlVars, ncbiVars, wosVars, normVars, sysVars, calls, served >>

WosDbs == { "WOS" }
SortFields == { "LD A" }

\* A direct call of search_and_fetch_all(term, db, sort_field).
InitWos ==
    /\ entry = "search_and_fetch_all" /\ pc = "wos_probe" /\ caller = "direct"
    /\ args \in [db : WosDbs, term : Terms, sort_field : SortFields]
    /\ Idle /\ NoStartup

NextWos == WosProbe \/ WosPage \/ WosSleep \/ WosFinish

SpecWos == InitWos /\ [][NextWos]_vars

(***************************************************************************)
(* The persist operations of the providers: save_records_to_file and       *)
(* search_and_save_all.  A file is what was handed to the writer: the rows *)
(* of a CSV file (header first), the objects of a JSON file, the strings   *)
(* written to a text file, in order.                                       *)
(***************************************************************************)
\* The filenames a persist operation is called with and their stems.
Stems == { "results", "out", "notes", "RESULTS" }
SaveFilenames == { "results.csv", "out.json", "notes.txt", "out.xyz", "RESULTS.CSV" }

\* filename.endswith(suffix)
EndsWith(filename, suffix) == \E stem \in Stems : filename = stem \o suffix

\* Mutant: a filename without a supported extension is written as CSV.
FormatDefaultsToCsv(filename) ==
    IF EndsWith(filename, ".json") THEN "json"
    ELSE IF EndsWith(filename, ".txt") THEN "txt"
    ELSE "csv"

\* The if/elif chain on the extension (provider.py lines 56-73 and 171-190).
Format(filename) ==
    IF EndsWith(filename, ".csv") THEN "csv"
    ELSE IF EndsWith(filename, ".json") THEN "json"
    ELSE IF EndsWith(filename, ".txt") THEN "txt"
    ELSE "invalid"

\* Mutant: the columns are written in the order of the model's fields.
csv_columns_model_order == << "PMID", "Title", "Abstract", "Journal", "Year" >>

\* csv_columns of save_records_to_file and of search_and_save_all.
csv_columns == << "PMID", "Year", "Journal", "Title", "Abstract" >>
wos_csv_columns == << "UID", "DOI", "Year", "Journal", "Title", "Authors" >>

\* df.to_csv(filename, index=False, columns=columns): the header, then one
\* row per record holding the columns in the given order.
CsvFile(columns, recs) ==
    [format |-> "csv",
     rows |-> << columns >>
              \o [k \in 1..Len(recs) |-> [c \in 1..Len(columns) |-> recs[k][columns[c]]]]]

\* df.to_json(filename, orient='records', indent=4): one flat object per record.
JsonFile(recs) == [format |-> "json", objects |-> recs]

\* The f.write calls of one iteration of the loops of lines 64-70 and 179-186.
PubmedBlock(n, article) ==
    << "Record #" \o IntToStr(n) \o "\n",
       "PMID: " \o article.PMID \o "\n",
       "Title: " \o article.Title \o "\n",
       "Journal: " \o article.Journal \o " (" \o article.Year \o ")\n",
       "Abstract: " \o article.Abstract \o "\n",
       "\n---\n\n" >>
WosBlock(n, article) ==
    << "Record #" \o IntToStr(n) \o "\n",
       "UID: " \o article.UID \o "\n",
       "DOI: " \o article.DOI \o "\n",
       "Title: " \o article.Title \o "\n",
       "Authors: " \o article.Authors \o "\n",
       "Journal: " \o article.Journal \o " (" \o article.Year \o ")\n",
       "\n---\n\n" >>

\* for i, article in enumerate(records): the writes of all iterations, in order.
RECURSIVE TxtWrites(_, _, _)
TxtWrites(kind, recs, n) ==
    IF n > Len(recs) THEN << >>
    ELSE (IF kind = "pubmed" THEN PubmedBlock(n, recs[n]) ELSE WosBlock(n, recs[n]))
         \o TxtWrites(kind, recs, n + 1)

TxtFile(kind, recs) == [format |-> "txt", writes |-> TxtWrites(kind, recs, 1)]

\* What the branch taken for the filename leaves in the file.
FileContent(kind, recs, filename) ==
    CASE Format(filename) = "csv" ->
            CsvFile(IF kind = "pubmed" THEN csv_columns ELSE wos_csv_columns, recs)
      [] Format(filename) = "json" -> JsonFile(recs)
      [] Format(filename) = "txt" -> TxtFile(kind, recs)

\* The try body of both persist operations: the branch for the extension
\* writes the file and prints, the else branch only prints; an OSError of
\* the writer (the file cannot be opened) reaches the except clause.
Persist(kind, recs, filename, onSaved, onInvalid, onFailed) ==
    IF Format(filename) = "invalid"
    THEN /\ shown' = Append(shown, "invalid file format")
         /\ returned' = onInvalid
         /\ UNCHANGED << files, raised >>
    ELSE \/ /\ files' = (filename :> FileContent(kind, recs, filename)) @@ files
            /\ shown' = Append(shown, "successfully saved")
            /\ returned' = onSaved
            /\ UNCHANGED raised
         \/ /\ shown' = Append(shown, "failed to save")
            /\ raised' = Append(raised, [where |-> "provider", kind |-> "OSError"])
            /\ returned' = onFailed
            /\ UNCHANGED files

\* NcbiProvider.save_records_to_file(records, filename), provider.py lines 43-76.
SaveRecordsToFile ==
    /\ pc = "save" /\ entry = "save_records_to_file"
    /\ IF args.records.none \/ args.records.recs = << >>
       THEN /\ shown' = Append(shown, "no records to save")
            /\ returned' = "None"
            /\ UNCHANGED << files, raised >>
       ELSE Persist("pubmed", args.records.recs, args.filename, "None", "None", "None")
    /\ pc' = "save_done"
    /\ UNCHANGED << ctlVars, ncbiVars, wosVars, normVars, env, built, result, calls, served >>

\* WosProvider.search_and_save_all, provider.py lines 157-194: what follows
\* the return of search_and_fetch_all (line 155).
WosSaveAll ==
    /\ pc = "wos_done" /\ entry = "search_and_save_all"
    /\ IF result.none
       THEN /\ shown' = Append(shown, "search failed, nothing to save")
            /\ returned' = "False"
            /\ UNCHANGED << files, raised >>
       ELSE IF result.recs = << >>
       THEN /\ shown' = Append(shown, "no articles found, nothing to save")
            /\ returned' = "True"
            /\ UNCHANGED << files, raised >>
       ELSE Persist("wos", result.recs, args.filename, "True", "False", "False")
    /\ pc' = "save_done"
    /\ UNCHANGED << ctlVars, ncbiVars, wosVars, normVars, env, built, result, calls, served >>

\* Longest list of records handed to save_records_to_file.
MaxSaved == 2

\* A direct call of save_records_to_file with None, or with what
\* _parse_pubmed_records made of well-formed raw records; a direct call of
\* search_and_save_all.
InitSave ==
    /\ Idle /\ NoStartup /\ caller = "direct"
    /\ \/ /\ entry = "save_records_to_file" /\ pc = "save"
          /\ args \in [records : { NoneResult }
                                 \cup { ListResult(ParsePubmedRecords(r).recs) :
                                          r \in SeqsUpTo({ PubmedA, PubmedB }, MaxSaved) },
                        filename : SaveFilenames]
       \/ /\ entry = "search_and_save_all" /\ pc = "wos_probe"
          /\ args \in [db : WosDbs, term : { "BRCA1 and human cancer" },
                        sort_field : SortFields,
                        filename : SaveFilenames \ { "RESULTS.CSV" }]

NextSave == SaveRecordsToFile \/ WosSaveAll \/ WosProbe \/ WosPage \/ WosSleep \/ WosFinish

SpecSave == InitSave /\ [][NextSave]_vars

(***************************************************************************)
(* The configuration run() reads from the environment (app.py of both      *)
(* agents).                                                                *)
(***************************************************************************)
\* review app.py line 20 and galaxy app.py line 14: the values that must be set.
ReviewRequired == { "GOOGLE_API_KEY", "NCBI_EMAIL", "WOS_API_KEY", "WOS_BASE_URL" }
GalaxyRequired == { "GOOGLE_API_KEY", "GALAXY_URL", "GALAXY_API_KEY" }
\* review app.py line 16: read, never tested.
ReviewOptional == { "NCBI_API_KEY" }

\* os.environ.get(name): None for a name that is not set.
EnvGet(e, name) == IF name \in DOMAIN e THEN PyStr(e[name]) ELSE PyNone

\* os.environ.get(name, default)
EnvGetDefault(e, name, default) == IF name \in DOMAIN e THEN e[name] ELSE default

\* Mutant: only the language-model key is tested.
ConfigCompleteKeyOnly(e, required) == Truthy(EnvGet(e, "GOOGLE_API_KEY"))

\* all([...]) over the required values: each is set and not empty.
ConfigComplete(e, required) == \A n \in required : Truthy(EnvGet(e, n))

\* default_ncbi_db = os.environ.get("DATABASE", "pubmed")
default_ncbi_db(e) == EnvGetDefault(e, "DATABASE", "pubmed")

\* The environments over the given names: any name may be unset, set to the
\* empty string, or set.
Envs(names) == UNION { [S -> { "", "set" }] : S \in SUBSET names }

\* An environment in which every required value is set.
CompleteEnv(required) == [n \in required |-> "set"]

\* The settings of DATABASE: unset, or another database than the fallback.
DatabaseSettings == { << >>, "DATABASE" :> "protein" }

(***************************************************************************)
(* The interactive loop of app.py and process_command of both controllers. *)
(* The loop and the review Controller are taken as built by the            *)
(* Controller's own constructor, Controller(ncbi_provider, wos_provider).  *)
(***************************************************************************)
\* What the user may type at the prompt; "<EOF>" stands for EOFError and
\* KeyboardInterrupt raised by input().
UserInputs == { "find papers about CRISPR", "", "exit", "QUIT", "<EOF>" }

\* user_input.lower() on the inputs above.
Lower(u) == IF u = "QUIT" THEN "quit" ELSE u

\* The attributes the provider classes define.
NcbiProviderAttrs == { "fetch_full_records", "save_records_to_file", "_parse_pubmed_records" }
WosProviderAttrs ==
    { "search_and_fetch_all", "search_and_save_all", "_parse_wos_records", "PAGE_LIMIT" }

\* The tools handed to the language model and names outside of them.
ReviewTools ==
    { "GetSummary", "FetchFullRecords", "FetchAndSave", "FindRelated", "RawNcbiSearch",
      "SearchWos", "SearchWosAndSave" }
Filenames == { "results.csv", "out.xyz" }

\* The keys of the schema of each tool (actions.py); the model may leave any out.
ToolArgs(name) ==
    CASE name \in { "GetSummary", "FetchFullRecords", "RawNcbiSearch" } ->
            { a @@ b : a \in Opt("db", Dbs), b \in Opt("term", Terms) }
      [] name = "FetchAndSave" ->
            { a @@ b @@ c : a \in Opt("db", Dbs), b \in Opt("term", Terms),
                            c \in Opt("filename", Filenames) }
      [] name = "SearchWos" -> Opt("term", Terms)
      [] name = "SearchWosAndSave" ->
            { b @@ c : b \in Opt("term", Terms), c \in Opt("filename", Filenames) }
      [] OTHER -> { << >> }

\* The answers of the language model: the call raised, parts[0] without a
\* function call, or a function call (its name may be empty or unknown).
Responses(names) ==
    { NoResponse }
    \cup { [raised |-> FALSE, fc |-> FALSE, name |-> "", args |-> << >>] }
    \cup UNION { { [raised |-> FALSE, fc |-> TRUE, name |-> n, args |-> a] :
                    a \in ToolArgs(n) } : n \in names }

\* Mutant: only the absence of function_call is tested, not an empty name.
NoToolChosenIgnoresName(r) == ~r.fc

\* not function_call or not function_call.name
NoToolChosen(r) == ~r.fc \/ r.name = ""

\* Mutant: the handler of process_command catches KeyError only.
ControllerCatchesKeyErrorOnly(kind) == kind = "KeyError"

\* except Exception as e: every exception class raised here derives from Exception.
ControllerCatches(kind) ==
    kind \in { "RemoteServiceError", "KeyError", "AttributeError", "TypeError", "UpstreamError" }

\* An exception of the given kind leaves the try body of process_command:
\* the handler prints it and process_command returns to the loop, or it
\* escapes process_command and the loop, which catches KeyboardInterrupt
\* and EOFError only.
ControllerRaises(kind) ==
    /\ raised' = Append(raised, [where |-> "controller", kind |-> kind])
    /\ IF ControllerCatches(kind)
       THEN shown' = Append(shown, "controller error") /\ pc' = "input"
       ELSE shown' = shown /\ pc' = "crashed"

\* The try body printed msgs and process_command returned.
ControllerReturns(msgs) ==
    /\ shown' = shown \o msgs /\ pc' = "input" /\ UNCHANGED raised

\* app.py lines 61-72 (both agents): read a line; leave on exit/quit or on
\* EOF, skip an empty line, hand anything else to process_command, which
\* starts with empty locals.
LoopInput ==
    /\ pc = "input"
    /\ \E user_input \in UserInputs :
         IF user_input = "<EOF>" \/ Lower(user_input) \in { "exit", "quit" }
         THEN pc' = "exited" /\ UNCHANGED << ctlVars, outVars, ncbiVars, wosVars, result,
                                              calls, served >>
         ELSE IF user_input = ""
         THEN UNCHANGED << pc, ctlVars, outVars, ncbiVars, wosVars, result, calls, served >>
         ELSE /\ pc' = "llm"
              /\ caller' = "none" /\ args' = << >> /\ response' = NoResponse
              /\ saved' = << >> /\ shown' = << >> /\ raised' = << >>
              /\ count' = 0 /\ webenv' = "" /\ query_key' = "" /\ start' = 0
              /\ all_records' = << >> /\ total_hits' = 0 /\ i' = 0 /\ all_results' = << >>
              /\ result' = NoneResult /\ calls' = << >> /\ served' = << >>
              /\ UNCHANGED entry
    /\ UNCHANGED << normVars, sysVars >>

\* The provider call a resolved action of the review controller starts with:
\* the exception its evaluation raises, or the fetch it enters.
\* controller.py lines 37-95.
ReviewDispatch(name, a) ==
    CASE name = "GetSummary" /\ "get_summaries" \notin NcbiProviderAttrs ->
            [raise |-> "AttributeError"]
      [] name \in { "FetchFullRecords", "RawNcbiSearch" } ->
            IF { "db", "term" } \subseteq DOMAIN a
            THEN [raise |-> "", db |-> a["db"], term |-> a["term"]]
            ELSE [raise |-> "KeyError"]
      [] name = "FetchAndSave" ->
            IF { "filename", "term" } \subseteq DOMAIN a
            THEN [raise |-> "", db |-> IF "db" \in DOMAIN a THEN a["db"] ELSE "pubmed",
                  term |-> a["term"]]
            ELSE [raise |-> "KeyError"]
      [] name = "FindRelated" /\ "find_and_link" \notin NcbiProviderAttrs ->
            [raise |-> "AttributeError"]
      [] name = "SearchWos" /\ "search_and_fetch" \notin WosProviderAttrs ->
            [raise |-> "AttributeError"]
      [] name = "SearchWosAndSave" /\ "search_and_fetch" \notin WosProviderAttrs ->
            IF "filename" \in DOMAIN a
            THEN [raise |-> "AttributeError"] ELSE [raise |-> "KeyError"]

\* controller.py lines 22-34 and the branch of lines 37-98 up to its provider
\* call: the language-model call, the no-tool return, the dispatch on the name.
ReviewResolve ==
    /\ pc = "llm" /\ entry = "review"
    /\ \E r \in Responses(ReviewTools \cup { "", "DropTables" }) :
        /\ response' = r
        /\ calls' = Append(calls, [op |-> "llm", ok |-> ~r.raised])
        /\ IF r.raised
           THEN ControllerRaises("RemoteServiceError") /\ UNCHANGED << caller, args >>
           ELSE IF NoToolChosen(r)
           THEN ControllerReturns(<< "no tool chosen", "text" >>) /\ UNCHANGED << caller, args >>
           ELSE IF r.name \notin ReviewTools
           THEN ControllerReturns(<< "unknown function" >>) /\ UNCHANGED << caller, args >>
           ELSE LET d == ReviewDispatch(r.name, r.args)
                IN  IF d.raise # ""
                    THEN ControllerRaises(d.raise) /\ UNCHANGED << caller, args >>
                    ELSE /\ caller' = r.name /\ args' = [db |-> d.db, term |-> d.term]
                         /\ pc' = "ncbi_esearch"
                         /\ UNCHANGED outVars
    /\ UNCHANGED << entry, saved, ncbiVars, wosVars, normVars, sysVars, result, served >>

\* The records a preview of at most n prints.
Preview(recs, n) == [k \in 1..Min(Len(recs), n) |-> "record"]

\* controller.py lines 46-52, 57-62 and 68-71: what follows the return of
\* fetch_full_records in the three actions that call it.
ReviewAfterFetch ==
    /\ pc = "ncbi_done" /\ entry = "review"
    /\ IF caller \in { "FetchFullRecords", "RawNcbiSearch" }
       THEN /\ IF ~result.none /\ result.recs # << >> /\ args.db = "pubmed"
               THEN ControllerReturns(<< "header" >> \o Preview(result.recs, 3))
               ELSE IF ~result.none /\ result.recs # << >>
               THEN ControllerReturns(IF caller = "FetchFullRecords"
                                      THEN << "fetched n raw records", "record" >>
                                      ELSE << "fetched n raw records" >>)
               ELSE IF ~result.none
               THEN ControllerReturns(<< "no results found" >>)
               ELSE ControllerReturns(<< >>)
            /\ UNCHANGED saved
       ELSE \* FetchAndSave
            IF ~result.none
            THEN IF "save_results_to_file" \in NcbiProviderAttrs
                 THEN /\ saved' = Append(saved, [method |-> "save_results_to_file",
                                                  recs |-> result.recs,
                                                  filename |-> response.args["filename"]])
                      /\ ControllerReturns(<< "save operation completed" >>)
                 ELSE ControllerRaises("AttributeError") /\ UNCHANGED saved
            ELSE ControllerReturns(<< "could not fetch records" >>) /\ UNCHANGED saved
    /\ UNCHANGED << entry, caller, args, response, ncbiVars, wosVars, normVars, sysVars, result, calls,
                    served >>

(***************************************************************************)
(* The galaxy agent.  Its provider module is not part of the sources at    *)
(* hand: the provider is taken to offer the four catalog functions, each   *)
(* returning a list of records or raising, next to what every Python       *)
(* object offers.                                                          *)
(***************************************************************************)
GalaxyCatalog ==
    { "fetch_all_libraries", "fetch_all_histories_with_details", "fetch_all_workflows",
      "fetch_all_tools" }
\* Names getattr finds on the provider object and that are callable.
GalaxyCallables == GalaxyCatalog \cup { "__init__", "__repr__" }
\* Names getattr finds that are not callable, and names it does not find.
GalaxyOtherNames == { "_client", "delete_history", "" }

\* galaxy controller.py lines 34-56 and 64-65: the language-model
\* call, the no-tool return, getattr and the callable test.
GalaxyResolve ==
    /\ pc = "llm" /\ entry = "galaxy"
    /\ \E r \in Responses(GalaxyCallables \cup GalaxyOtherNames) :
        /\ response' = r
        /\ calls' = Append(calls, [op |-> "llm", ok |-> ~r.raised])
        /\ IF r.raised
           THEN ControllerRaises("RemoteServiceError") /\ UNCHANGED caller
           ELSE IF NoToolChosen(r)
           THEN ControllerReturns(<< "no tool chosen", "text" >>) /\ UNCHANGED caller
           ELSE IF r.name \in GalaxyCallables
           THEN caller' = r.name /\ pc' = "galaxy_call" /\ UNCHANGED outVars
           ELSE ControllerReturns(<< "unknown function" >>) /\ UNCHANGED caller
    /\ UNCHANGED << entry, args, saved, ncbiVars, wosVars, normVars, sysVars, result, served >>

\* Number of records a galaxy provider function may return (more than any
\* preview holds).
MaxGalaxy == 6

\* galaxy controller.py lines 57-63: results = provider_method() and the
\* printing of every item.  A catalog function returns records, nothing, or
\* raises; __init__ called without its client and the iteration over what
\* __repr__ returns raise TypeError and AttributeError.
GalaxyCall ==
    /\ pc = "galaxy_call"
    /\ \/ /\ caller \in GalaxyCatalog
          /\ \E n \in 0..MaxGalaxy :
               /\ calls' = Append(calls, [op |-> "provider", name |-> caller, ok |-> TRUE])
               /\ ControllerReturns(IF n = 0 THEN << "did not return any results" >>
                                    ELSE [k \in 1..n |-> "record"])
       \/ /\ caller \in GalaxyCatalog
          /\ calls' = Append(calls, [op |-> "provider", name |-> caller, ok |-> FALSE])
          /\ ControllerRaises("UpstreamError")
       \/ /\ caller \notin GalaxyCatalog
          /\ calls' = Append(calls, [op |-> "provider", name |-> caller, ok |-> FALSE])
          /\ ControllerRaises(IF caller = "__init__" THEN "TypeError" ELSE "AttributeError")
    /\ UNCHANGED << ctlVars, ncbiVars, wosVars, normVars, sysVars, result, served >>

\* The loop is waiting for a command of either agent.
InitCtl ==
    /\ entry \in { "review", "galaxy" } /\ pc = "input" /\ caller = "none"
    /\ args = << >>
    /\ Idle
    /\ built = << >>
    /\ \/ entry = "review" /\ env \in { CompleteEnv(ReviewRequired) @@ d : d \in DatabaseSettings }
       \/ entry = "galaxy" /\ env = CompleteEnv(GalaxyRequired)

NextCtl ==
    \/ LoopInput \/ ReviewResolve \/ ReviewAfterFetch \/ GalaxyResolve \/ GalaxyCall
    \/ NcbiSearch \/ NcbiEfetch \/ NcbiSleep \/ NcbiFinish

SpecCtl == InitCtl /\ [][NextCtl]_vars

(***************************************************************************)
(* run() of both agents from its first line: the configuration test, the   *)
(* construction of clients, providers and controller, then the loop.       *)
(***************************************************************************)
\* The parameters of Controller.__init__ of the review agent (controller.py
\* line 11) and the keyword arguments run() calls it with (app.py lines 44-50).
ControllerParams == { "ncbi_provider", "wos_provider" }
RunControllerArgs ==
    { "ncbi_provider", "wos_provider", "default_ncbi_db", "default_wos_db", "default_wos_sort" }

\* review app.py lines 11-24, galaxy app.py lines 9-19: load_dotenv, the reads
\* of the environment, the test of the required values, genai.configure.
ConfigCheck ==
    /\ pc = "startup"
    /\ IF ConfigComplete(env, IF entry = "review" THEN ReviewRequired ELSE GalaxyRequired)
       THEN pc' = "setup" /\ UNCHANGED shown
       ELSE pc' = "halted" /\ shown' = Append(shown, "configuration error")
    /\ UNCHANGED << ctlVars, raised, ncbiVars, wosVars, normVars, sysVars, result, calls, served >>

\* review app.py lines 26-58: the clients and providers are built, then
\* Controller(...) is called.  A keyword argument that __init__ does not
\* take raises TypeError before the body of __init__ runs, and nothing in
\* run() catches it; otherwise __init__ sends the system prompt to the
\* language model (controller.py line 19), which may raise as well.
ReviewSetup ==
    /\ pc = "setup" /\ entry = "review"
    /\ LET parts == << "ncbi_client", "wos_client", "ncbi_provider", "wos_provider" >>
       IN  IF RunControllerArgs \subseteq ControllerParams
           THEN \/ /\ built' = built \o parts \o << "controller" >>
                   /\ calls' = Append(calls, [op |-> "llm", ok |-> TRUE])
                   /\ pc' = "input" /\ UNCHANGED raised
                \/ /\ built' = built \o parts
                   /\ calls' = Append(calls, [op |-> "llm", ok |-> FALSE])
                   /\ raised' = Append(raised, [where |-> "run", kind |-> "RemoteServiceError"])
                   /\ pc' = "crashed"
           ELSE /\ built' = built \o parts
                /\ raised' = Append(raised, [where |-> "run", kind |-> "TypeError"])
                /\ pc' = "crashed" /\ UNCHANGED calls
    /\ UNCHANGED << ctlVars, shown, ncbiVars, wosVars, normVars, files, returned, env, result,
                    served >>

\* galaxy app.py lines 21-26: client, provider and Controller(provider=provider),
\* whose __init__ (galaxy controller.py lines 6-31) takes the provider and
\* makes no remote call.
GalaxySetup ==
    /\ pc = "setup" /\ entry = "galaxy"
    /\ built' = built \o << "galaxy_client", "provider", "controller" >>
    /\ pc' = "input"
    /\ UNCHANGED << ctlVars, outVars, ncbiVars, wosVars, normVars, files, returned, env, result,
                    calls, served >>

\* run() is called with the environment in any state.
InitRun ==
    /\ pc = "startup" /\ caller = "none" /\ args = << >>
    /\ Idle
    /\ built = << >>
    /\ \/ entry = "review" /\ env \in Envs(ReviewRequired \cup ReviewOptional)
       \/ entry = "galaxy" /\ env \in Envs(GalaxyRequired)

NextRun ==
    \/ ConfigCheck \/ ReviewSetup \/ GalaxySetup
    \/ LoopInput \/ GalaxyResolve \/ GalaxyCall

SpecRun == InitRun /\ [][NextRun]_vars

(***************************************************************************)
(* Both fetches, each called directly.                                     *)
(***************************************************************************)
InitFetch == InitNcbi \/ InitWos

NextFetch == NextNcbi \/ NextWos

SpecFetch == InitFetch /\ [][NextFetch]_vars

(***************************************************************************)
(* Every way a search call is issued: by a command through process_command *)
(* and by a direct call of either fetch.                                   *)
(***************************************************************************)
InitCalls == InitCtl \/ InitFetch

NextCalls == NextCtl \/ NextWos

SpecCalls == InitCalls /\ [][NextCalls]_vars

\* The steps of a command or of a directly called fetch: everything but the
\* wait for the user's next line.
CommandStep ==
    \/ ReviewResolve \/ ReviewAfterFetch \/ GalaxyResolve \/ GalaxyCall
    \/ NcbiSearch \/ NcbiEfetch \/ NcbiSleep \/ NcbiFinish
    \/ WosProbe \/ WosPage \/ WosSleep \/ WosFinish

\* Execution is single-threaded and synchronous: as every remote call returns
\* or raises and every sleep ends, the step the thread is at is taken.
\* Commands come through the loop of either agent (the session-cursor fetch
\* runs inside a command); the page-number fetch, which no command reaches,
\* is called directly.
InitLive ==
    \/ InitCtl /\ "DATABASE" \notin DOMAIN env
    \/ InitWos /\ args.term = "(asthma[MeSH Terms])"

SpecLive == InitLive /\ [][NextCalls]_vars /\ WF_vars(CommandStep)

\* The calls of one kind in the log of the current command, in order.
CallsOf(op) == SelectSeq(calls, LAMBDA c : c.op = op)
\* Whether a remote call of the log failed.
Failed(c) == c.op # "sleep" /\ ~c.ok
NcbiReturned == entry = "fetch_full_records" /\ pc = "ncbi_done"
WosReturned == entry = "search_and_fetch_all" /\ pc = "wos_done"

(***************************************************************************)
(* C1.  Session-cursor fetch: whenever the search call reports count = 0,  *)
(* fetch_full_records has returned the empty list (success, not None) and  *)
(* no efetch call was issued.                                              *)
(***************************************************************************)
C1_ZeroCountIsEmptySuccess ==
    \A k \in 1..Len(calls) :
        (calls[k].op = "esearch" /\ calls[k].ok /\ calls[k].count = 0)
        => /\ pc = "ncbi_done"
           /\ result = ListResult(<< >>)
           /\ ~result.none
           /\ CallsOf("efetch") = << >>

C1_Witness ==
    /\ NcbiReturned /\ Len(calls) = 1
    /\ calls[1].op = "esearch" /\ calls[1].ok /\ calls[1].count = 0
    /\ result = ListResult(<< >>)

(***************************************************************************)
(* C2.  Page-number fetch: the number of records search_and_fetch_all      *)
(* returns never exceeds the total the probe call reported.                *)
(***************************************************************************)
C2_NeverMoreThanTotal ==
    (WosReturned /\ ~result.none) => Len(result.recs) <= CallsOf("wos_search")[1].total

(***************************************************************************)
(* C3.  In both protocols the returned result set is the concatenation of  *)
(* the batch/page payloads in fetch order: one returned record per served  *)
(* raw record, in the order served, none dropped, none deduplicated.       *)
(***************************************************************************)
C3_ResultIsConcatenationOfPayloads ==
    /\ (NcbiReturned /\ ~result.none)
       => /\ Len(result.recs) = Len(served)
          /\ \A k \in 1..Len(served) : result.recs[k] = ParsePubmedOne(served[k]).rec
    /\ (WosReturned /\ ~result.none)
       => /\ Len(result.recs) = Len(served)
          /\ \A k \in 1..Len(served) : result.recs[k] = ParseWosOne(served[k]).rec

(***************************************************************************)
(* C4.  Session-cursor fetch with count > 0 and no failing call: the       *)
(* efetch calls carry the offsets 0, 100, 200, ... in this order, each     *)
(* with retmax 100 and the WebEnv and QueryKey the esearch call of this    *)
(* invocation answered; there are never more than 10 of them, and once     *)
(* the fetch has returned there are exactly ceil(min(count, 1000) / 100)   *)
(* (exactly 1 for count = 2).                                              *)
(***************************************************************************)
C4_BatchOffsets ==
    LET fetches == CallsOf("efetch")
        search == calls[1]
    IN  entry = "fetch_full_records" /\ fetches # << >>
        => /\ search.op = "esearch" /\ search.ok /\ search.count > 0
           /\ Len(fetches) <= 10
           /\ \A k \in 1..Len(fetches) :
                /\ fetches[k].retstart = (k - 1) * 100
                /\ fetches[k].retmax = 100
                /\ fetches[k].webenv = search.webenv
                /\ fetches[k].query_key = search.query_key
                /\ fetches[k].db = search.db

C4_BatchCount ==
    (/\ NcbiReturned /\ calls[1].ok /\ calls[1].count > 0
     /\ \A k \in 1..Len(calls) : ~Failed(calls[k]))
    => /\ Len(CallsOf("efetch")) = (Min(calls[1].count, 1000) + 99) \div 100
       /\ calls[1].count = 2 => Len(CallsOf("efetch")) = 1

C4_Theorem == C4_BatchOffsets /\ C4_BatchCount

C4_Witness ==
    /\ NcbiReturned /\ ~result.none
    /\ calls[1].ok /\ calls[1].count = 1001
    /\ Len(CallsOf("efetch")) = 10
    /\ \A k \in 1..Len(calls) : ~Failed(calls[k])

(***************************************************************************)
(* C5.  In both protocols a failing remote call (search, probe, batch or   *)
(* page fetch) is the last call of the command: the fetch has returned     *)
(* None, which carries none of the records fetched before the failure.     *)
(***************************************************************************)
C5_FailureAborts ==
    \A k \in 1..Len(calls) :
        Failed(calls[k])
        => /\ k = Len(calls)
           /\ pc \in { "ncbi_done", "wos_done" }
           /\ result.none /\ result.recs = << >>

\* Two batches were fetched and hold records, the third batch call fails.
C5_Witness ==
    /\ NcbiReturned /\ Len(CallsOf("efetch")) = 3
    /\ Failed(calls[Len(calls)]) /\ Len(all_records) >= 2
    /\ result = NoneResult

Range(f) == { f[k] : k \in DOMAIN f }

(***************************************************************************)
(* C6.  Every error raised while a command is processed is caught and      *)
(* reported: an exception of a provider method by the provider, any other  *)
(* one by the handler of process_command, after which process_command has  *)
(* returned and the loop waits for the next command.  No error leaves      *)
(* process_command and ends the loop.                                      *)
(***************************************************************************)
C6_ErrorsAreCaught ==
    /\ pc # "crashed"
    /\ \A k \in 1..Len(raised) :
         IF raised[k].where = "provider"
         THEN "provider error" \in Range(shown)
         ELSE /\ k = Len(raised)
              /\ pc \in { "input", "exited" }
              /\ shown # << >> /\ shown[Len(shown)] = "controller error"

\* The loop waits for the next command after a command in which the fetch
\* succeeded and the save step raised.
C6_Witness ==
    /\ entry = "review" /\ pc = "input" /\ caller = "FetchAndSave"
    /\ raised # << >> /\ raised[Len(raised)].kind = "AttributeError"
    /\ ENABLED LoopInput

(***************************************************************************)
(* C7.  When the language model selects no action (no function call, or a  *)
(* function call with an empty name), process_command displays the free    *)
(* text and returns without any provider operation: no search, no fetch,   *)
(* no persist call is made for that command.                               *)
(***************************************************************************)
C7_NoToolNoProviderCall ==
    (/\ entry \in { "review", "galaxy" } /\ pc # "llm" /\ calls # << >>
     /\ ~response.raised /\ (~response.fc \/ response.name = ""))
    => /\ pc \in { "input", "exited" }
       /\ shown = << "no tool chosen", "text" >>
       /\ Len(calls) = 1 /\ calls[1].op = "llm"
       /\ saved = << >> /\ served = << >>

\* A function call with an empty name was answered.
C7_Witness ==
    /\ entry = "galaxy" /\ pc = "input" /\ calls # << >>
    /\ ~response.raised /\ response.fc /\ response.name = ""
    /\ shown = << "no tool chosen", "text" >>

(***************************************************************************)
(* C8.  For every resolved save action (FetchAndSave, SearchWosAndSave)    *)
(* whose fetch succeeded with at least one record, the persist operation   *)
(* has been executed with those records and the requested filename when    *)
(* the command completes.                                                  *)
(***************************************************************************)
C8_SaveReachesSink ==
    (/\ entry = "review" /\ pc \in { "input", "exited" } /\ calls # << >>
     /\ ~response.raised /\ response.fc
     /\ response.name \in { "FetchAndSave", "SearchWosAndSave" }
     /\ ~result.none /\ result.recs # << >>)
    => \E k \in 1..Len(saved) :
          /\ saved[k].recs = result.recs
          /\ saved[k].filename = response.args["filename"]

(***************************************************************************)
(* The normalizers called directly on a list of raw records.               *)
(***************************************************************************)
\* Longest list of raw records handed to a normalizer (lists of more than
\* one record are drawn from the samples).
MaxRaw == 2

NormalizePubmed ==
    /\ pc = "norm" /\ entry = "_parse_pubmed_records"
    /\ norm' = ParsePubmedRecords(raw)
    /\ pc' = "normed"
    /\ UNCHANGED << ctlVars, outVars, ncbiVars, wosVars, sysVars, raw, result, calls, served >>

NormalizeWos ==
    /\ pc = "norm" /\ entry = "_parse_wos_records"
    /\ norm' = ParseWosRecords(raw)
    /\ pc' = "normed"
    /\ UNCHANGED << ctlVars, outVars, ncbiVars, wosVars, sysVars, raw, result, calls, served >>

InitNorm ==
    /\ pc = "norm" /\ caller = "direct" /\ args = << >>
    /\ count = 0 /\ webenv = "" /\ query_key = "" /\ start = 0 /\ all_records = << >>
    /\ total_hits = 0 /\ i = 0 /\ all_results = << >>
    /\ result = NoneResult /\ calls = << >> /\ served = << >>
    /\ response = NoResponse /\ shown = << >> /\ saved = << >> /\ raised = << >>
    /\ norm = NotNormalized
    /\ files = << >> /\ returned = NotReturned /\ NoStartup
    /\ \/ /\ entry = "_parse_pubmed_records"
          /\ raw \in SeqsUpTo(PubmedRaw, 1) \cup SeqsUpTo(PubmedSample, MaxRaw)
       \/ /\ entry = "_parse_wos_records"
          /\ raw \in SeqsUpTo(WosRaw, 1) \cup SeqsUpTo(WosSample, MaxRaw)

NextNorm == NormalizePubmed \/ NormalizeWos

SpecNorm == InitNorm /\ [][NextNorm]_vars

\* The value at a path of keys of a nested dict, if every key is there.
RECURSIVE Lookup(_, _)
Lookup(x, path) ==
    IF path = << >> THEN [found |-> TRUE, val |-> x]
    ELSE IF x.t = "dict" /\ Head(path) \in DOMAIN x.d THEN Lookup(x.d[Head(path)], Tail(path))
    ELSE [found |-> FALSE, val |-> PyNone]
Lacks(x, path) == ~Lookup(x, path).found

PubmedNormalized == entry = "_parse_pubmed_records" /\ pc = "normed" /\ norm.ok
WosNormalized == entry = "_parse_wos_records" /\ pc = "normed" /\ norm.ok

(***************************************************************************)
(* C9.  Every field of every normalized record is a string that is never   *)
(* empty, and a field whose data the source record lacks holds the fixed   *)
(* placeholder of the field ('N/A' or 'No X Found'); this includes the     *)
(* identifier field.                                                       *)
(***************************************************************************)
C9_PlaceholderForMissingData ==
    /\ PubmedNormalized =>
         \A k \in 1..Len(raw) :
            LET r == norm.recs[k]
                info == << "MedlineCitation", "Article" >>
            IN  /\ \A f \in DOMAIN r : r[f] # ""
                /\ Lacks(raw[k], << "MedlineCitation", "PMID" >>)
                     => r.PMID \in { "N/A", "No PMID Found" }
                /\ Lacks(raw[k], info \o << "ArticleTitle" >>) => r.Title = "No Title Found"
                /\ Lacks(raw[k], info \o << "Abstract", "AbstractText" >>)
                     => r.Abstract = "No Abstract Found"
                /\ Lacks(raw[k], info \o << "Journal", "Title" >>)
                     => r.Journal = "No Journal Found"
                /\ (/\ Lacks(raw[k], info \o << "Journal", "JournalIssue", "PubDate", "Year" >>)
                    /\ Lacks(raw[k], info \o << "Journal", "JournalIssue", "PubDate",
                                                "MedlineDate" >>))
                     => r.Year = "No Year Found"
    /\ WosNormalized =>
         \A k \in 1..Len(norm.recs) : \A f \in DOMAIN norm.recs[k] : norm.recs[k][f] # ""

(***************************************************************************)
(* C10.  A literature record without abstract (Abstract absent,            *)
(* AbstractText absent, or AbstractText an empty list) normalizes to a     *)
(* record whose Abstract is exactly 'No Abstract Found'; when AbstractText *)
(* is a non-empty list of text parts, Abstract is the parts joined by one  *)
(* space, in order.                                                        *)
(***************************************************************************)
\* left \o " " \o right for every two neighbours: the text is the parts in
\* order with exactly one space between two of them.
RECURSIVE SpacedConcat(_)
SpacedConcat(parts) ==
    IF Len(parts) = 1 THEN parts[1].s
    ELSE parts[1].s \o " " \o SpacedConcat(Tail(parts))

C10_AbstractPlaceholderOrJoined ==
    PubmedNormalized =>
        \A k \in 1..Len(raw) :
            LET text == Lookup(raw[k], << "MedlineCitation", "Article", "Abstract",
                                          "AbstractText" >>)
            IN  /\ (~text.found \/ text.val = EmptyList)
                     => norm.recs[k].Abstract = "No Abstract Found"
                /\ (text.found /\ text.val.t = "list" /\ text.val.l # << >>)
                     => norm.recs[k].Abstract = SpacedConcat(text.val.l)

\* The two parts of an abstract were joined.
C10_Witness ==
    /\ PubmedNormalized /\ Len(raw) = 1
    /\ Lookup(raw[1], << "MedlineCitation", "Article", "Abstract", "AbstractText" >>).val
         = PyList(<< PyStr("Background."), PyStr("Results.") >>)
    /\ norm.recs[1].Abstract = "Background. Results."

(***************************************************************************)
(* C11.  Normalization is defensive: for every list of raw records in      *)
(* which one field of one record is malformed (a scalar where a keyed      *)
(* structure or a list is expected, a record that is not a keyed           *)
(* structure), the normalizer succeeds and yields exactly one normalized   *)
(* record per raw record, so that the enclosing fetch does not end in the  *)
(* failure outcome.                                                        *)
(***************************************************************************)
\* The value at the path is there and has another shape than the given one.
WrongShape(x, path, shape) ==
    LET v == Lookup(x, path) IN v.found /\ v.val.t # shape

\* The value at the path is there and is not a list of strings (None aside,
\* which stands for a missing value).
NotTexts(x, path) ==
    LET v == Lookup(x, path)
    IN  v.found /\ v.val.t # "none" /\ ~(v.val.t = "list" /\ AllStr(v.val.l))

\* The places of a raw PubMed record where the normalizer expects a dict.
PubmedKeyed ==
    LET a == << "MedlineCitation", "Article" >>
    IN  { << >>, << "MedlineCitation" >>, a, a \o << "Abstract" >>, a \o << "Journal" >>,
          a \o << "Journal", "JournalIssue" >>, a \o << "Journal", "JournalIssue", "PubDate" >> }

PubmedMalformed(r) ==
    { p \in PubmedKeyed : WrongShape(r, p, "dict") }
    \cup { p \in { << "MedlineCitation", "Article", "Abstract", "AbstractText" >> } : NotTexts(r, p) }

\* The places of a raw WoS hit where the normalizer expects a dict, and the
\* list of authors: a list of dicts with a text displayName, or of texts.
WosAuthorsMalformed(r) ==
    LET v == Lookup(r, << "names", "authors" >>)
    IN  /\ v.found /\ v.val.t # "none"
        /\ \/ v.val.t # "list"
           \/ \E k \in 1..Len(v.val.l) :
                 LET au == v.val.l[k]
                 IN  ~(au.t = "str" \/ (au.t = "dict" /\ Get(au, "displayName", PyStr("")).t = "str"))

WosMalformed(r) ==
    { p \in { << >>, << "names" >>, << "source" >> } : WrongShape(r, p, "dict") }
    \cup { p \in { << "names", "authors" >> } : WosAuthorsMalformed(r) }

\* In the list handed to the normalizer exactly one field of one record is malformed.
OneMalformedField ==
    LET bad(k) == IF entry = "_parse_pubmed_records" THEN PubmedMalformed(raw[k])
                  ELSE WosMalformed(raw[k])
    IN  \E k \in 1..Len(raw) :
            /\ Cardinality(bad(k)) = 1
            /\ \A j \in 1..Len(raw) : j # k => bad(j) = {}

C11_NormalizationIsDefensive ==
    (pc = "normed" /\ OneMalformedField) => (norm.ok /\ Len(norm.recs) = Len(raw))

\* The records a persist operation was given, once it has returned.
Persisted == pc = "save_done"
RecordsToPersist ==
    IF entry = "save_records_to_file" THEN args.records.recs ELSE result.recs
Unsupported == { "out.xyz", "RESULTS.CSV" }

(***************************************************************************)
(* C12.  Persisting at least one record to a filename whose extension is   *)
(* not a supported one (out.xyz) is a reported failure: at no point is a   *)
(* file created or written, the operation returns to its caller (no        *)
(* exception leaves it) having printed the invalid-format message, and     *)
(* search_and_save_all returns False.                                      *)
(***************************************************************************)
C12_UnsupportedExtensionIsReported ==
    (/\ entry \in { "save_records_to_file", "search_and_save_all" }
     /\ args.filename \in Unsupported)
    => /\ files = << >>
       /\ (Persisted /\ RecordsToPersist # << >>)
          => /\ shown[Len(shown)] = "invalid file format"
             /\ \A k \in 1..Len(raised) : raised[k].where = "provider"
             /\ returned = IF entry = "search_and_save_all" THEN "False" ELSE "None"

\* Two fetched WoS records were to be written to out.xyz.
C12_Witness ==
    /\ Persisted /\ entry = "search_and_save_all" /\ args.filename = "out.xyz"
    /\ Len(result.recs) = 2 /\ returned = "False" /\ files = << >>

\* C12 as stated, for every call with such a filename, whatever there is to persist.
C12_AsStated ==
    (/\ entry \in { "save_records_to_file", "search_and_save_all" }
     /\ args.filename \in Unsupported)
    => /\ files = << >>
       /\ Persisted
          => /\ "invalid file format" \in Range(shown)
             /\ returned = IF entry = "search_and_save_all" THEN "False" ELSE "None"

(***************************************************************************)
(* C18.  A persist operation that succeeded wrote exactly one file, in the *)
(* format of the extension of the filename: .csv the header PMID, Year,    *)
(* Journal, Title, Abstract (literature) followed by one row per record    *)
(* in that column order; .json the list of flat objects; .txt one block    *)
(* per record, numbered from 1 and closed by the divider line.  Every      *)
(* record of the result set is written exactly once, in result-set order.  *)
(***************************************************************************)
FormatOfExtension ==
    CASE args.filename = "results.csv" -> "csv"
      [] args.filename = "out.json" -> "json"
      [] args.filename = "notes.txt" -> "txt"
      [] OTHER -> "none"

C18_CsvRows(file, recs) ==
    /\ Len(file.rows) = Len(recs) + 1
    /\ entry = "save_records_to_file"
         => /\ file.rows[1] = << "PMID", "Year", "Journal", "Title", "Abstract" >>
            /\ \A k \in 1..Len(recs) :
                  file.rows[k + 1] = << recs[k].PMID, recs[k].Year, recs[k].Journal,
                                        recs[k].Title, recs[k].Abstract >>
    /\ entry = "search_and_save_all"
         => \A k \in 1..Len(recs) :
               /\ Len(file.rows[k + 1]) = Len(file.rows[1])
               /\ \A c \in 1..Len(file.rows[1]) : file.rows[k + 1][c] = recs[k][file.rows[1][c]]

C18_TxtBlocks(file, recs) ==
    LET size == IF entry = "save_records_to_file" THEN 6 ELSE 7
        id(r) == IF entry = "save_records_to_file" THEN "PMID: " \o r.PMID \o "\n"
                 ELSE "UID: " \o r.UID \o "\n"
    IN  /\ Len(file.writes) = size * Len(recs)
        /\ \A k \in 1..Len(recs) :
              /\ file.writes[size * (k - 1) + 1] = "Record #" \o IntToStr(k) \o "\n"
              /\ file.writes[size * (k - 1) + 2] = id(recs[k])
              /\ file.writes[size * k] = "\n---\n\n"

C18_PersistFormats ==
    (Persisted /\ shown[Len(shown)] = "successfully saved")
    => /\ DOMAIN files = { args.filename }
       /\ LET file == files[args.filename]
              recs == RecordsToPersist
          IN  /\ file.format = FormatOfExtension
              /\ file.format = "csv" => C18_CsvRows(file, recs)
              /\ file.format = "json" => file.objects = recs
              /\ file.format = "txt" => C18_TxtBlocks(file, recs)

\* Two literature records were written to results.csv, the second after the first.
C18_Witness ==
    /\ Persisted /\ entry = "save_records_to_file" /\ args.filename = "results.csv"
    /\ "results.csv" \in DOMAIN files
    /\ Len(files["results.csv"].rows) = 3
    /\ files["results.csv"].rows[2][1] = "101" /\ files["results.csv"].rows[3][1] = "102"

(***************************************************************************)
(* C13.  When the resolved NCBI action comes without a database (db is     *)
(* optional in RawNcbiSearch, default 'pubmed'), the command does not end  *)
(* in an error: the search is issued against the default database          *)
(* configured at startup.  Stated for the actions that call                *)
(* fetch_full_records.                                                     *)
(***************************************************************************)
C13_DefaultDatabaseIsUsed ==
    (/\ entry = "review" /\ pc \in { "input", "exited" } /\ calls # << >>
     /\ ~response.raised /\ response.fc
     /\ response.name \in { "FetchFullRecords", "FetchAndSave", "RawNcbiSearch" }
     /\ "term" \in DOMAIN response.args /\ "db" \notin DOMAIN response.args
     /\ response.name = "FetchAndSave" => "filename" \in DOMAIN response.args)
    => /\ CallsOf("esearch") # << >>
       /\ CallsOf("esearch")[1].db = default_ncbi_db(env)
       /\ CallsOf("esearch")[1].term = response.args["term"]

C15_PageSequence ==
    LET searches == CallsOf("wos_search")
        probe == searches[1]
        pages == Len(searches) - 1
    IN  (entry = "search_and_fetch_all" /\ searches # << >>)
        => /\ probe.page = 1 /\ probe.limit = 1
           /\ pages <= 5
           /\ pages > 0 => (probe.ok /\ probe.total > 0)
           /\ \A p \in 1..pages :
                 /\ searches[p + 1].page = p /\ searches[p + 1].limit = 10
                 /\ (p - 1) * 10 < probe.total
                 /\ \A q \in 1..(p - 1) : searches[q + 1].ok /\ searches[q + 1].hits > 0
           /\ (probe.ok /\ probe.total = 0)
                => (pages = 0 /\ pc = "wos_done" /\ result = ListResult(<< >>))

\* Five pages with hits were fetched for a total of 100 and the fetch ended.
C15_Witness ==
    /\ WosReturned /\ ~result.none
    /\ Len(CallsOf("wos_search")) = 6
    /\ CallsOf("wos_search")[1].total = 100
    /\ CallsOf("wos_search")[6].page = 5 /\ CallsOf("wos_search")[6].hits = 1

(***************************************************************************)
(* C16.  In both protocols a rate-limiting delay of hundreds of            *)
(* milliseconds lies between every two batch-fetch calls and between every *)
(* two page-fetch calls of one fetch: no such call directly follows the    *)
(* one before it.                                                          *)
(***************************************************************************)
\* The k-th entry of the log is a batch-fetch call or a page-fetch call (the
\* first WoS search call of a fetch is the probe).
IsFetchCall(k) ==
    \/ calls[k].op = "efetch"
    \/ calls[k].op = "wos_search" /\ \E j \in 1..(k - 1) : calls[j].op = "wos_search"

C16_DelayBetweenFetches ==
    \A j \in 1..Len(calls) : \A k \in (j + 1)..Len(calls) :
        (IsFetchCall(j) /\ IsFetchCall(k))
        => \E m \in (j + 1)..(k - 1) : calls[m].op = "sleep" /\ calls[m].ms >= 100

\* Two batches were fetched, the delay between them taken.
C16_Witness ==
    /\ entry = "fetch_full_records" /\ Len(CallsOf("efetch")) = 2
    /\ Len(calls) = 4 /\ calls[3].op = "sleep" /\ calls[4].op = "efetch" /\ calls[4].ok

(***************************************************************************)
(* C17.  Whatever the length of the result set, a command renders at most  *)
(* the first N records of it: 3 full NCBI records in the review agent (the *)
(* actions with a preview of 5 never get to print), and never more than 5  *)
(* in any controller.                                                      *)
(***************************************************************************)
\* The records the current command has printed.
Rendered == Len(SelectSeq(shown, LAMBDA m : m = "record"))

C17_PreviewIsCapped ==
    /\ entry = "review" => Rendered <= 3
    /\ entry = "galaxy" => Rendered <= 5

\* A required value of the agent is not set, or set to the empty string.
RequiredMissing ==
    \E n \in (IF entry = "review"
               THEN { "GOOGLE_API_KEY", "NCBI_EMAIL", "WOS_API_KEY", "WOS_BASE_URL" }
               ELSE { "GOOGLE_API_KEY", "GALAXY_URL", "GALAXY_API_KEY" }) :
        n \notin DOMAIN env \/ env[n] = ""

(***************************************************************************)
(* C19.  When a required configuration value is missing at startup, run()  *)
(* reports the error and halts before the loop: nothing is constructed, no *)
(* remote call is made, no user input is read, no exception is raised.     *)
(* When all required values are there, run() does not halt with the        *)
(* configuration error, whether NCBI_API_KEY is set or not.                *)
(***************************************************************************)
C19_MissingConfigHalts ==
    /\ RequiredMissing
         => /\ pc \in { "startup", "halted" }
            /\ built = << >> /\ calls = << >> /\ raised = << >>
            /\ ~ENABLED LoopInput
            /\ pc = "halted" => shown = << "configuration error" >>
    /\ ~RequiredMissing
         => (pc # "halted" /\ "configuration error" \notin Range(shown))

\* The review agent halted: only WOS_BASE_URL was not set.
C19_Witness ==
    /\ entry = "review" /\ pc = "halted"
    /\ DOMAIN env = { "GOOGLE_API_KEY", "NCBI_EMAIL", "WOS_API_KEY", "NCBI_API_KEY" }
    /\ \A n \in DOMAIN env : env[n] = "set"
    /\ shown = << "configuration error" >>

(***************************************************************************)
(* C20.  With every required configuration value present, startup of the   *)
(* review agent completes: no error leaves run() while the clients, the    *)
(* providers and the Controller are built, and the loop is reached.        *)
(***************************************************************************)
C20_StartupCompletes ==
    (entry = "review" /\ ~RequiredMissing)
    => /\ pc # "crashed"
       /\ \A k \in 1..Len(raised) : raised[k].where # "run"
       /\ pc \notin { "startup", "setup" } => "controller" \in Range(built)

(***************************************************************************)
(* C21.  The action catalog of the galaxy agent is closed: a provider      *)
(* attribute is invoked only when the name the language model returned is  *)
(* one of the four declared functions; for every other name, names of      *)
(* other callable attributes of the provider included, the command reports *)
(* the unknown function and calls nothing on the provider.                 *)
(***************************************************************************)
C21_CatalogIsClosed ==
    LET declared == { "fetch_all_libraries", "fetch_all_histories_with_details",
                      "fetch_all_workflows", "fetch_all_tools" }
    IN  entry = "galaxy"
        => /\ \A k \in 1..Len(calls) :
                 calls[k].op = "provider" => calls[k].name \in declared
           /\ (/\ pc \in { "input", "exited" } /\ calls # << >>
               /\ ~response.raised /\ response.fc /\ response.name # ""
               /\ response.name \notin declared)
              => (shown = << "unknown function" >> /\ CallsOf("provider") = << >>)

(***************************************************************************)
(* C22.  Every command terminates: as long as each remote call returns or  *)
(* raises, process_command (and a fetch called directly) eventually hands  *)
(* control back, whatever count or total the upstream reports and whatever *)
(* the pages hold; it has then issued at most 1 search and 10 batch-fetch  *)
(* calls in the session-cursor protocol and at most 1 probe and 5 page     *)
(* calls in the page-number protocol; and a command is accepted only when  *)
(* the one before it has returned to the loop.                             *)
(***************************************************************************)
\* Control is back with the caller: the loop waits or has ended, or the
\* directly called fetch has returned.
AtRest ==
    \/ pc \in { "input", "exited" }
    \/ caller = "direct" /\ pc \in { "ncbi_done", "wos_done" }

C22_CallBounds ==
    /\ Len(CallsOf("esearch")) <= 1 /\ Len(CallsOf("efetch")) <= 10
    /\ Len(CallsOf("wos_search")) <= 1 + 5

C22_OneCommandAtATime == [][pc' = "llm" => (pc = "input" /\ AtRest)]_vars

C22_EveryCommandTerminates ==
    /\ [] C22_CallBounds
    /\ C22_OneCommandAtATime
    /\ (~AtRest) ~> AtRest

\* A command that fetched ten batches has returned to the loop.
C22_Witness ==
    /\ entry = "review" /\ pc = "input" /\ caller = "FetchFullRecords"
    /\ Len(CallsOf("esearch")) = 1 /\ Len(CallsOf("efetch")) = 10

====
